---- MODULE Spec2Model ----
(***************************************************************************)
(* Trajectory generation / metrics / ranking pipeline of AiMissionPlanner  *)
(* (src/cpp).  Floating-point quantities are modelled in fixed point:      *)
(* coordinates are whole metres, lengths are in 1/Scale metres, ratios     *)
(* (efficiency, smoothness) in 1/Scale, angles in 1/Scale radians.         *)
(* C++ indices are 0-based and are kept 0-based as data; TLA+ sequence     *)
(* positions are 1-based.                                                  *)
(***************************************************************************)
EXTENDS Integers, Sequences, FiniteSets, TLC

VARIABLES
    \* ---- library ranking (trajectory_metrics.cpp rankTrajectories) ----
    trajectories,     \* argument: the candidate list
    expected_end,     \* argument: expected end waypoint
    weights,          \* argument: <<w1, w2, w3>> in tenths
    scores,           \* local vector of (score, index) pairs, after std::sort
    ranked_indices,   \* the returned vector
    rank_pc,          \* "call" before the call, "done" after it returned
    \* ---- TrajectoryGenerator objects (trajectory_inference.cpp) ----
    status,           \* per generator: "unconstructed", "ready", "load_failed"
    config_,          \* per generator: GeneratorConfig
    norm_params_,     \* per generator: NormalizationParams
    session_,         \* per generator: the loaded model, or NullSession
    rng_state_,       \* per generator: unsigned latent-sampling counter
    call,             \* per generator: the public call in progress / its outcome
    seeds,            \* per generator: seeds handed to std::mt19937, in order
    runs,             \* per generator: number of session_->Run invocations
    load_ret,         \* per generator: what loadNormalization last returned
    norm_doc,         \* per generator: the file loadNormalization last read
    worker,           \* per worker thread: its generate call on generator 1
    race,             \* two threads touched rng_state_ without ordering
    \* ---- the application (trajectory_app.cpp main) ----
    app_pc,           \* position of main
    all_trajectories, \* the generated candidates
    rankings,         \* sorted TrajectoryRanking vector
    top5_trajectories,
    labels,
    app_ub,           \* front()/back() was applied to an empty trajectory
    \* ---- a single call of a free function or private method ----
    fn_pc,            \* "idle", "call" before the call, "done" after it
    fn_in,            \* the arguments
    fn_out,           \* what the call produced
    \* ---- TrajectoryPlotter and the files in /tmp (trajectory_plotter.cpp) ----
    plot_pc,          \* position inside plot3D / plot2D
    plot_call,        \* the call: function, number of trajectories, loop index
    data_files,       \* local vector of the data file names written so far
    tmp_data,         \* indices i with /tmp/trajectory_<i>.dat on disk
    tmp_script,       \* /tmp/plot_script.gnu is on disk
    plot_ret,         \* what the call returned
    plot_count        \* calls made so far

rankVars == <<trajectories, expected_end, weights, scores, ranked_indices, rank_pc>>

genVars ==
    <<status, config_, norm_params_, session_, rng_state_, call, seeds, runs,
      load_ret, norm_doc>>

concVars == <<worker, race>>

appVars ==
    <<app_pc, all_trajectories, rankings, top5_trajectories, labels, app_ub>>

fnVars == <<fn_pc, fn_in, fn_out>>

plotVars ==
    <<plot_pc, plot_call, data_files, tmp_data, tmp_script, plot_ret,
      plot_count>>

vars == <<rankVars, genVars, concVars, appVars, fnVars, plotVars>>

\* ------------------------------------------------------------------------
\* Fixed-point arithmetic
\* ------------------------------------------------------------------------

\* resolution of a float quantity: 1/Scale
Scale == 1000

\* the 1e-6f guard of the metrics, in units of 1/(Scale*Scale)
EpsMicro == 1

\* upper limit of the integer square root search (46340^2 < 2^31)
SqrtLimit == 46340

RECURSIVE ISqrtBetween(_, _, _)
ISqrtBetween(n, lo, hi) ==
    IF lo >= hi THEN lo
    ELSE LET mid == (lo + hi + 1) \div 2
         IN  IF mid * mid <= n THEN ISqrtBetween(n, mid, hi)
                               ELSE ISqrtBetween(n, lo, mid - 1)

\* largest squared length (metres^2) whose fixed-point square fits
MaxDist2 == (SqrtLimit * SqrtLimit) \div (Scale * Scale)

\* std::sqrt on a squared length in metres^2, result in 1/Scale metres,
\* tabulated once
SqrtTable ==
    [d2 \in 0..MaxDist2 |-> ISqrtBetween(d2 * Scale * Scale, 0, SqrtLimit)]

Sqrt(d2) == SqrtTable[d2]

Min(a, b) == IF a < b THEN a ELSE b
Max(a, b) == IF a > b THEN a ELSE b

\* std::acos at cosine k/10, k = -10..10 (position k + 11), in 1/Scale rad
AcosTable ==
    <<3142, 2691, 2498, 2346, 2214, 2094, 1982, 1875, 1772, 1671, 1571,
      1471, 1369, 1266, 1159, 1047, 927, 795, 644, 451, 0>>

\* std::acos of a clamped cosine c in -Scale..Scale (linear between table
\* points), in 1/Scale rad
Acos(c) ==
    LET step == Scale \div 10
        k    == (c + Scale) \div step
        r    == (c + Scale) % step
    IN  IF k >= 20 THEN AcosTable[21]
        ELSE AcosTable[k + 1]
             - ((AcosTable[k + 1] - AcosTable[k + 2]) * r) \div step

RECURSIVE SumSeq(_)
SumSeq(s) == IF s = <<>> THEN 0 ELSE Head(s) + SumSeq(Tail(s))

RECURSIVE MaxSeq(_)
MaxSeq(s) == IF Len(s) = 1 THEN s[1] ELSE Max(Head(s), MaxSeq(Tail(s)))

\* ------------------------------------------------------------------------
\* Waypoint, Trajectory, TrajectoryMetrics
\* ------------------------------------------------------------------------

Waypoint(x_, y_, z_) == [x |-> x_, y |-> y_, z |-> z_]

P000 == Waypoint(0, 0, 0)
P300 == Waypoint(3, 0, 0)
P340 == Waypoint(3, 4, 0)
P680 == Waypoint(6, 8, 0)

\* squared distance and dot product of segments
Dist2(p, q) ==
    (q.x - p.x) * (q.x - p.x) + (q.y - p.y) * (q.y - p.y)
    + (q.z - p.z) * (q.z - p.z)

Dist(p, q) == Sqrt(Dist2(p, q))

\* TrajectoryMetrics(): every field 0
DefaultMetrics ==
    [path_length |-> 0, straight_line_distance |-> 0, path_efficiency |-> 0,
     avg_curvature |-> 0, max_curvature |-> 0, smoothness_score |-> 0,
     endpoint_error |-> 0, min_altitude |-> 0, max_altitude |-> 0,
     avg_altitude |-> 0, avg_velocity |-> 0]

computePathLength(t) ==
    IF Len(t) < 2 THEN 0
    ELSE SumSeq([i \in 1..(Len(t) - 1) |-> Dist(t[i], t[i + 1])])

computeStraightLineDistance(t) ==
    IF Len(t) < 2 THEN 0 ELSE Dist(t[1], t[Len(t)])

\* variant returning 0 instead of 1 below two points
computePathEfficiencyZeroDefault(t) ==
    IF Len(t) < 2 THEN 0
    ELSE LET straight_line == computeStraightLineDistance(t)
             path_length   == computePathLength(t)
         IN  IF path_length * Scale < EpsMicro THEN 0
             ELSE (straight_line * Scale) \div path_length

computePathEfficiency(t) ==
    IF Len(t) < 2 THEN Scale
    ELSE LET straight_line == computeStraightLineDistance(t)
             path_length   == computePathLength(t)
         IN  IF path_length * Scale < EpsMicro THEN 0
             ELSE (straight_line * Scale) \div path_length

\* variant taking the angle between the lines through the segments, which
\* ignores the direction of travel
CurvatureAtUndirected(t, i) ==
    LET norm1 == Dist(t[i - 1], t[i])
        norm2 == Dist(t[i], t[i + 1])
        dot   == (t[i].x - t[i - 1].x) * (t[i + 1].x - t[i].x)
                 + (t[i].y - t[i - 1].y) * (t[i + 1].y - t[i].y)
                 + (t[i].z - t[i - 1].z) * (t[i + 1].z - t[i].z)
        adot  == IF dot < 0 THEN -dot ELSE dot
    IN  IF norm1 * Scale > EpsMicro /\ norm2 * Scale > EpsMicro
        THEN LET cos_raw   == (adot * Scale * Scale)
                              \div Max(1, (norm1 * norm2) \div Scale)
                 cos_angle == Max(-Scale, Min(Scale, cos_raw))
                 angle     == Acos(cos_angle)
             IN  (angle * Scale) \div norm1
        ELSE -1

\* curvature at interior point i (1-based position), or -1 when the point
\* is skipped because an adjacent segment is shorter than 1e-6
CurvatureAt(t, i) ==
    LET norm1 == Dist(t[i - 1], t[i])
        norm2 == Dist(t[i], t[i + 1])
        dot   == (t[i].x - t[i - 1].x) * (t[i + 1].x - t[i].x)
                 + (t[i].y - t[i - 1].y) * (t[i + 1].y - t[i].y)
                 + (t[i].z - t[i - 1].z) * (t[i + 1].z - t[i].z)
    IN  IF norm1 * Scale > EpsMicro /\ norm2 * Scale > EpsMicro
        THEN LET cos_raw   == (dot * Scale * Scale)
                              \div Max(1, (norm1 * norm2) \div Scale)
                 cos_angle == Max(-Scale, Min(Scale, cos_raw))
                 angle     == Acos(cos_angle)
             IN  (angle * Scale) \div norm1
        ELSE -1

RECURSIVE CurvaturesFrom(_, _)
CurvaturesFrom(t, i) ==
    IF i > Len(t) - 1 THEN <<>>
    ELSE LET c == CurvatureAt(t, i)
         IN  (IF c >= 0 THEN <<c>> ELSE <<>>) \o CurvaturesFrom(t, i + 1)

computeCurvatures(t) == IF Len(t) < 3 THEN <<>> ELSE CurvaturesFrom(t, 2)

computeAverageCurvature(t) ==
    LET curvatures == computeCurvatures(t)
    IN  IF curvatures = <<>> THEN 0
        ELSE SumSeq(curvatures) \div Len(curvatures)

computeMaxCurvature(t) ==
    LET curvatures == computeCurvatures(t)
    IN  IF curvatures = <<>> THEN 0 ELSE MaxSeq(curvatures)

computeSmoothnessScore(t) ==
    (Scale * Scale) \div (Scale + computeAverageCurvature(t))

computeEndpointError(t, e) ==
    IF t = <<>> THEN 0 ELSE Dist(t[Len(t)], e)

computeAverageVelocity(t) ==
    IF Len(t) < 2 THEN 0
    ELSE SumSeq([i \in 1..(Len(t) - 1) |-> Dist(t[i], t[i + 1])])
         \div (Len(t) - 1)

evaluateTrajectory(t, e) ==
    IF t = <<>> THEN DefaultMetrics
    ELSE LET alts == [i \in 1..Len(t) |-> t[i].z * Scale]
         IN [path_length            |-> computePathLength(t),
             straight_line_distance |-> computeStraightLineDistance(t),
             path_efficiency        |-> computePathEfficiency(t),
             avg_curvature          |-> computeAverageCurvature(t),
             max_curvature          |-> computeMaxCurvature(t),
             smoothness_score       |-> computeSmoothnessScore(t),
             endpoint_error         |-> computeEndpointError(t, e),
             min_altitude           |-> -MaxSeq([i \in 1..Len(t) |-> -alts[i]]),
             max_altitude           |-> MaxSeq(alts),
             avg_altitude           |-> SumSeq(alts) \div Len(t),
             avg_velocity           |-> computeAverageVelocity(t)]

\* ------------------------------------------------------------------------
\* TrajectoryGenerator (trajectory_inference.h / trajectory_inference.cpp)
\* ------------------------------------------------------------------------

\* generator objects of the process
Gens == {1, 2}

\* width of `unsigned int rng_state_` (scaled down from 32 bits)
RngBits == 2

RngModulus == 2 ^ RngBits

\* GeneratorConfig::latent_dim
LatentDim == 64

\* longest sequence a model artifact produces / a configuration asks for
MaxSeqLen == 3

\* a new public call starts only while fewer seeds than this were drawn
MaxCalls == 5

\* largest n_samples handed to generateMultiple
MaxSamples == 3

\* session_ == nullptr
NullSession == [null |-> TRUE, seq_len |-> 0, conforms |-> FALSE]

\* what lies at a model path: an unloadable file (missing or corrupt), or a
\* model whose output tensor has shape [1, seq_len, 3]
\* conforms: its declared inputs are (latent, start, end) with the shapes
\* runInference feeds and its output is named trajectory; session_->Run on
\* a model that does not conform throws
Artifacts ==
    {[loadable |-> FALSE, seq_len |-> 0, conforms |-> FALSE]}
    \cup {[loadable |-> TRUE, seq_len |-> k, conforms |-> TRUE] :
             k \in 0..MaxSeqLen}
    \cup {[loadable |-> TRUE, seq_len |-> 0, conforms |-> FALSE]}

GeneratorConfigs ==
    [model_path : Artifacts, latent_dim : {LatentDim}, seq_len : 2..MaxSeqLen]

\* NormalizationParams(): mean 0, std 1
DefaultNormalizationParams == [mean |-> <<0, 0, 0>>, std |-> <<1, 1, 1>>]

\* values std::time(nullptr) may return at construction
Times == {0, 1, RngModulus - 1, RngModulus + 1}

\* arguments of generate / generateMultiple
Starts == {Waypoint(0, 0, 1)}
Ends == {Waypoint(8, 6, 2)}

IdleCall ==
    [op |-> "none", pc |-> "idle", start |-> P000, end |-> P000,
     n_samples |-> 0, i |-> 0, acc |-> <<>>, result |-> <<>>, error |-> "",
     rng0 |-> 0, seeds0 |-> 0, runs0 |-> 0]

isReady(g) == ~session_[g].null

getSeqLen(g) == config_[g].seq_len

\* the float values +infinity and NaN (and -infinity == -PosInf), kept apart
\* from every finite value of the model
PosInf == 1000000000
NaN == 2000000000
NegInf == -PosInf

IsFinite(v) == NegInf < v /\ v < PosInf

\* a / b rounded to the nearest representable value, b # 0
RoundDiv(a, b) ==
    LET num == IF b < 0 THEN -a ELSE a
        den == IF b < 0 THEN -b ELSE b
    IN  (2 * num + den) \div (2 * den)

\* float division a / b of finite a and b: x/0 is an infinity, 0/0 is NaN
FloatDiv(a, b) ==
    IF b # 0 THEN RoundDiv(a, b)
    ELSE IF a = 0 THEN NaN
    ELSE IF a > 0 THEN PosInf ELSE NegInf

\* float product v * s of a possibly non-finite v and a finite s
FloatMul(v, s) ==
    IF v = NaN THEN NaN
    ELSE IF IsFinite(v) THEN v * s
    ELSE IF s = 0 THEN NaN
    ELSE IF s > 0 THEN v ELSE -v

\* normalize with the parameters np: (wp - mean) / std per axis, result in
\* 1/Scale
normalizeWith(np, wp) ==
    << FloatDiv((wp.x - np.mean[1]) * Scale, np.std[1]),
       FloatDiv((wp.y - np.mean[2]) * Scale, np.std[2]),
       FloatDiv((wp.z - np.mean[3]) * Scale, np.std[3]) >>

normalize(g, wp) == normalizeWith(norm_params_[g], wp)

\* one axis of denormalize: v * std + mean, v in 1/Scale, result in metres
denormalizeAxisNoMean(v, std_k, mean_k) ==
    LET prod == FloatMul(v, std_k)
    IN  IF IsFinite(prod) THEN RoundDiv(prod, Scale) ELSE prod

denormalizeAxis(v, std_k, mean_k) ==
    LET prod == FloatMul(v, std_k)
    IN  IF IsFinite(prod) THEN RoundDiv(prod, Scale) + mean_k ELSE prod

denormalizeWith(np, v) ==
    Waypoint(denormalizeAxis(v[1], np.std[1], np.mean[1]),
             denormalizeAxis(v[2], np.std[2], np.mean[2]),
             denormalizeAxis(v[3], np.std[3], np.mean[3]))

denormalize(g, v) == denormalizeWith(norm_params_[g], v)

\* the vector std::mt19937(seed) and std::normal_distribution produce: a
\* function of the seed and the dimension
Latent(seed, dim) == [seed |-> seed, dim |-> dim]

\* sampleLatent: seeds the engine with rng_state_ and post-increments it
sampleLatentNoIncrement(g) ==
    [latent |-> Latent(rng_state_[g], config_[g].latent_dim),
     seed   |-> rng_state_[g],
     rng    |-> rng_state_[g]]

sampleLatent(g) ==
    [latent |-> Latent(rng_state_[g], config_[g].latent_dim),
     seed   |-> rng_state_[g],
     rng    |-> (rng_state_[g] + 1) % RngModulus]

\* session_->Run: the model as a deterministic function of its inputs; the
\* output holds session.seq_len normalized points running from start to
\* end, bent sideways and ending off target as the latent dictates
Infer(session, latent, sn, en) ==
    LET L == session.seq_len
        along(k, i) ==
            sn[k] + ((en[k] - sn[k]) * (i - 1)) \div Max(1, L - 1)
        \* an axis fed an infinity or NaN comes out NaN
        axis(k, i, off) ==
            IF IsFinite(sn[k]) /\ IsFinite(en[k]) THEN along(k, i) + off
            ELSE NaN
    IN  [i \in 1..L |->
            << axis(1, i, 0),
               axis(2, i, IF 1 < i /\ i < L THEN latent.seed * Scale ELSE 0),
               axis(3, i, IF i = L THEN (latent.seed % 2) * Scale ELSE 0) >>]

\* runInference after a successful Run: seq_len is read from the output
\* tensor's shape, each output point is denormalized
outputSeqLenFromConfig(g, output) == config_[g].seq_len

outputSeqLen(g, output) == Len(output)

runInference(g, latent, start, end) ==
    LET output  == Infer(session_[g], latent, normalize(g, start),
                         normalize(g, end))
        seq_len == outputSeqLen(g, output)
    IN  [i \in 1..seq_len |-> denormalize(g, output[i])]

\* a token between two commas of a matched array: std::stof either reads a
\* number off its front or throws std::invalid_argument
Num(v) == [num |-> TRUE, val |-> v]
NotANumber == [num |-> FALSE, val |-> 0]

\* what the regex search finds for one key: no match, or the tokens of the
\* captured group
NoMatch == [found |-> FALSE, tokens |-> <<>>]
Match(toks) == [found |-> TRUE, tokens |-> toks]

\* the files loadNormalization is pointed at
Documents ==
    { [openable |-> FALSE, mean |-> NoMatch, std |-> NoMatch],
      [openable |-> TRUE, mean |-> NoMatch, std |-> NoMatch],
      [openable |-> TRUE, mean |-> Match(<<Num(1), Num(1), Num(0)>>),
                          std  |-> Match(<<Num(2), Num(2), Num(1)>>)],
      [openable |-> TRUE, mean |-> Match(<<Num(1)>>),
                          std  |-> Match(<<Num(2), Num(2), Num(2), Num(5)>>)],
      [openable |-> TRUE, mean |-> Match(<<Num(1), NotANumber, Num(1)>>),
                          std  |-> Match(<<Num(2), Num(2), Num(2)>>)],
      [openable |-> TRUE, mean |-> Match(<<Num(1), Num(1), Num(0)>>),
                          std  |-> NoMatch],
      [openable |-> TRUE, mean |-> Match(<<Num(0), Num(0), Num(1)>>),
                          std  |-> Match(<<Num(1), Num(2), Num(0)>>)] }

\* the tokens the while loop converts: getline runs before idx < 3 is
\* tested, so a fourth token is read and dropped
Converted(field) == SubSeq(field.tokens, 1, Min(3, Len(field.tokens)))

\* one "Parse mean" / "Parse std" block: does std::stof throw in it
stofThrows(field) ==
    field.found /\ \E k \in DOMAIN Converted(field) : ~Converted(field)[k].num

\* one block's result: converted tokens overwrite the defaults from the left
parseArray(default, field) ==
    IF ~field.found THEN default
    ELSE [k \in 1..3 |->
            IF k <= Len(Converted(field)) THEN Converted(field)[k].val
            ELSE default[k]]

\* parseNormalizationJSON(filepath)
parseNormalizationJSON(doc) ==
    IF ~doc.openable
    THEN [ok |-> FALSE, params |-> DefaultNormalizationParams]
    ELSE IF stofThrows(doc.mean) \/ stofThrows(doc.std)
    THEN [ok |-> FALSE, params |-> DefaultNormalizationParams]
    ELSE [ok |-> TRUE,
          params |-> [mean |-> parseArray(DefaultNormalizationParams.mean,
                                          doc.mean),
                      std  |-> parseArray(DefaultNormalizationParams.std,
                                          doc.std)]]

\* no file was read yet
NoDocument == [openable |-> FALSE, mean |-> NoMatch, std |-> NoMatch]

GenIdle ==
    /\ status = [g \in Gens |-> "unconstructed"]
    /\ config_ = [g \in Gens |->
                    [model_path |-> [loadable |-> FALSE, seq_len |-> 0,
                                    conforms |-> FALSE],
                     latent_dim |-> LatentDim, seq_len |-> 2]]
    /\ norm_params_ = [g \in Gens |-> DefaultNormalizationParams]
    /\ session_ = [g \in Gens |-> NullSession]
    /\ rng_state_ = [g \in Gens |-> 0]
    /\ call = [g \in Gens |-> IdleCall]
    /\ seeds = [g \in Gens |-> <<>>]
    /\ runs = [g \in Gens |-> 0]
    /\ load_ret = [g \in Gens |-> "not called"]
    /\ norm_doc = [g \in Gens |-> NoDocument]

\* threads of the caller sharing generator 1
NumWorkers == 2

Workers == 1..NumWorkers

IdleWorker == [pc |-> "idle", tmp |-> 0, seed |-> 0, result |-> <<>>]

ConcIdle ==
    /\ worker = [w \in Workers |-> IdleWorker]
    /\ race = FALSE

FnIdle ==
    /\ fn_pc = "idle"
    /\ fn_in = <<>>
    /\ fn_out = <<>>

\* no plot call made, /tmp holds none of the plotter's files
NoPlotCall == [op |-> "none", n |-> 0, i |-> 0]

PlotIdle ==
    /\ plot_pc = "idle"
    /\ plot_call = NoPlotCall
    /\ data_files = <<>>
    /\ tmp_data = {}
    /\ tmp_script = FALSE
    /\ plot_ret = "none"
    /\ plot_count = 0

\* TrajectoryGenerator::TrajectoryGenerator(config): rng_state_ is set from
\* the clock; a model that cannot be loaded makes the constructor throw, so
\* no generator object exists afterwards
Construct(g) ==
    /\ status[g] = "unconstructed"
    /\ \E cfg \in GeneratorConfigs : \E t \in Times :
          /\ config_' = [config_ EXCEPT ![g] = cfg]
          /\ rng_state_' = [rng_state_ EXCEPT ![g] = t % RngModulus]
          /\ IF cfg.model_path.loadable
             THEN /\ session_' = [session_ EXCEPT ![g] =
                        [null |-> FALSE, seq_len |-> cfg.model_path.seq_len,
                         conforms |-> cfg.model_path.conforms]]
                  /\ status' = [status EXCEPT ![g] = "ready"]
             ELSE /\ session_' = session_
                  /\ status' = [status EXCEPT ![g] = "load_failed"]
    /\ UNCHANGED <<norm_params_, call, seeds, runs, load_ret, norm_doc>>

\* a public call may start when no call is in progress on the generator
CanCall(g) ==
    /\ status[g] = "ready"
    /\ call[g].pc \in {"idle", "returned", "threw"}
    /\ Len(seeds[g]) < MaxCalls

NewCall(g, op, start, end, n) ==
    [op |-> op, pc |-> "loop", start |-> start, end |-> end,
     n_samples |-> n, i |-> 0, acc |-> <<>>, result |-> <<>>, error |-> "",
     rng0 |-> rng_state_[g], seeds0 |-> Len(seeds[g]), runs0 |-> runs[g]]

\* generate and its variant in which a failed model invocation leaves the
\* counter alone:
\* one execution of generate(start, end) on generator g; run_ok tells
\* whether session_->Run returns or throws.  Yields the new counter, the
\* seeds drawn, the Run count and the outcome.
generateOutcomeSamplingAfterRun(g, start, end, run_ok) ==
    IF ~isReady(g)
    THEN [ok |-> FALSE, error |-> "Generator not initialized",
          value |-> <<>>, rng |-> rng_state_[g], drawn |-> <<>>, ran |-> 0]
    ELSE LET sl == sampleLatent(g)
         IN  IF run_ok /\ session_[g].conforms
             THEN [ok |-> TRUE, error |-> "",
                   value |-> runInference(g, sl.latent, start, end),
                   rng |-> sl.rng, drawn |-> <<sl.seed>>, ran |-> 1]
             ELSE [ok |-> FALSE, error |-> "Ort::Exception",
                   value |-> <<>>, rng |-> rng_state_[g], drawn |-> <<>>,
                   ran |-> 1]

generateOutcome(g, start, end, run_ok) ==
    IF ~isReady(g)
    THEN [ok |-> FALSE, error |-> "Generator not initialized",
          value |-> <<>>, rng |-> rng_state_[g], drawn |-> <<>>, ran |-> 0]
    ELSE LET sl == sampleLatent(g)
         IN  IF run_ok /\ session_[g].conforms
             THEN [ok |-> TRUE, error |-> "",
                   value |-> runInference(g, sl.latent, start, end),
                   rng |-> sl.rng, drawn |-> <<sl.seed>>, ran |-> 1]
             ELSE [ok |-> FALSE, error |-> "Ort::Exception",
                   value |-> <<>>, rng |-> sl.rng, drawn |-> <<sl.seed>>,
                   ran |-> 1]

\* TrajectoryGenerator::generate called by the application
Generate(g) ==
    /\ CanCall(g)
    /\ \E start \in Starts : \E end \in Ends : \E run_ok \in BOOLEAN :
          LET out == generateOutcome(g, start, end, run_ok)
              c   == NewCall(g, "generate", start, end, 1)
          IN  /\ rng_state_' = [rng_state_ EXCEPT ![g] = out.rng]
              /\ seeds' = [seeds EXCEPT ![g] = @ \o out.drawn]
              /\ runs' = [runs EXCEPT ![g] = @ + out.ran]
              /\ call' = [call EXCEPT ![g] =
                    [c EXCEPT !.pc = IF out.ok THEN "returned" ELSE "threw",
                              !.i = 1,
                              !.result = out.value,
                              !.error = out.error]]
    /\ UNCHANGED <<status, config_, norm_params_, session_, load_ret, norm_doc>>

\* generateMultiple(start, end, n): entry (readiness check, reserve)
GenerateMultipleCall(g, start, end, n) ==
    /\ CanCall(g)
    /\ LET c == NewCall(g, "generateMultiple", start, end, n)
       IN  call' = [call EXCEPT ![g] =
              IF isReady(g) THEN c
              ELSE [c EXCEPT !.pc = "threw",
                             !.error = "Generator not initialized"]]
    /\ UNCHANGED <<status, config_, norm_params_, session_, rng_state_,
                   seeds, runs, load_ret, norm_doc>>

GenerateMultipleStart(g) ==
    \E start \in Starts : \E end \in Ends : \E n \in 0..MaxSamples :
        GenerateMultipleCall(g, start, end, n)

\* the loop condition i < n_samples of generateMultiple, for call record c
LoopRunsOneLess(c) == c.i + 1 < c.n_samples

LoopRuns(c) == c.i < c.n_samples

\* generateMultiple: one iteration of the loop, a generate call
GenerateMultipleStep(g) ==
    /\ status[g] = "ready"
    /\ call[g].op = "generateMultiple"
    /\ call[g].pc = "loop"
    /\ LoopRuns(call[g])
    /\ \E run_ok \in BOOLEAN :
          LET out == generateOutcome(g, call[g].start, call[g].end, run_ok)
          IN  /\ rng_state_' = [rng_state_ EXCEPT ![g] = out.rng]
              /\ seeds' = [seeds EXCEPT ![g] = @ \o out.drawn]
              /\ runs' = [runs EXCEPT ![g] = @ + out.ran]
              /\ call' = [call EXCEPT ![g] =
                    IF out.ok
                    THEN [@ EXCEPT !.i = @ + 1,
                                   !.acc = Append(@, out.value)]
                    ELSE [@ EXCEPT !.pc = "threw", !.i = @ + 1,
                                   !.acc = <<>>, !.error = out.error]]
    /\ UNCHANGED <<status, config_, norm_params_, session_, load_ret, norm_doc>>

\* variant of the return that also resets the normalization parameters
GenerateMultipleReturnResettingNorm(g) ==
    /\ status[g] = "ready"
    /\ call[g].op = "generateMultiple"
    /\ call[g].pc = "loop"
    /\ ~LoopRuns(call[g])
    /\ call' = [call EXCEPT ![g] =
                  [@ EXCEPT !.pc = "returned", !.result = call[g].acc,
                            !.acc = <<>>]]
    /\ norm_params_' = [norm_params_ EXCEPT ![g] = DefaultNormalizationParams]
    /\ UNCHANGED <<status, config_, session_, rng_state_,
                   seeds, runs, load_ret, norm_doc>>

\* generateMultiple: the loop is over, the vector is returned
GenerateMultipleReturn(g) ==
    /\ status[g] = "ready"
    /\ call[g].op = "generateMultiple"
    /\ call[g].pc = "loop"
    /\ ~LoopRuns(call[g])
    /\ call' = [call EXCEPT ![g] =
                  [@ EXCEPT !.pc = "returned", !.result = call[g].acc,
                            !.acc = <<>>]]
    /\ UNCHANGED <<status, config_, norm_params_, session_, rng_state_,
                   seeds, runs, load_ret, norm_doc>>

\* loadNormalization and its variant that stores the parser's record even
\* when the parser failed:
\* TrajectoryGenerator::loadNormalization(filepath): true and the parsed
\* parameters, or false with norm_params_ as it was.  The record of the
\* generation call that came before it is cleared.
LoadNormalizationAssigningAlways(g) ==
    /\ status[g] = "ready"
    /\ call[g].pc \in {"idle", "returned", "threw"}
    /\ \E doc \in Documents :
          LET parsed == parseNormalizationJSON(doc)
          IN  /\ norm_params_' = [norm_params_ EXCEPT ![g] = parsed.params]
              /\ load_ret' = [load_ret EXCEPT ![g] =
                    IF parsed.ok THEN "true" ELSE "false"]
              /\ norm_doc' = [norm_doc EXCEPT ![g] = doc]
    /\ call' = [call EXCEPT ![g] = IdleCall]
    /\ UNCHANGED <<status, config_, session_, rng_state_, seeds, runs>>

LoadNormalizationFrom(g, docs) ==
    /\ status[g] = "ready"
    /\ call[g].pc \in {"idle", "returned", "threw"}
    /\ \E doc \in docs :
          LET parsed == parseNormalizationJSON(doc)
          IN  /\ norm_params_' = [norm_params_ EXCEPT ![g] =
                    IF parsed.ok THEN parsed.params ELSE @]
              /\ load_ret' = [load_ret EXCEPT ![g] =
                    IF parsed.ok THEN "true" ELSE "false"]
              /\ norm_doc' = [norm_doc EXCEPT ![g] = doc]
    /\ call' = [call EXCEPT ![g] = IdleCall]
    /\ UNCHANGED <<status, config_, session_, rng_state_, seeds, runs>>

LoadNormalization(g) == LoadNormalizationFrom(g, Documents)

\* ---- generate called from several threads on generator 1 ----
\* sampleLatent's `rng_state_++` on a plain unsigned int is a load followed
\* by a store; nothing orders the threads, so the two steps of different
\* threads interleave freely

\* generate: the isReady test, then the load half of rng_state_++
WorkerLoad(w) ==
    /\ status[1] = "ready"
    /\ isReady(1)
    /\ worker[w].pc = "idle"
    /\ worker' = [worker EXCEPT ![w] = [@ EXCEPT !.pc = "loaded",
                                                 !.tmp = rng_state_[1]]]
    /\ race' = (race \/ \E v \in Workers \ {w} : worker[v].pc # "idle")
    /\ UNCHANGED genVars

\* the store half of rng_state_++; the engine is seeded with the loaded value
WorkerStore(w) ==
    /\ status[1] = "ready"
    /\ worker[w].pc = "loaded"
    /\ worker' = [worker EXCEPT ![w] = [@ EXCEPT !.pc = "sampled",
                                                 !.seed = worker[w].tmp]]
    /\ rng_state_' = [rng_state_ EXCEPT ![1] = (worker[w].tmp + 1) % RngModulus]
    /\ seeds' = [seeds EXCEPT ![1] = Append(@, worker[w].tmp)]
    /\ UNCHANGED <<status, config_, norm_params_, session_, call, runs,
                   load_ret, norm_doc, race>>

\* the rest of generate: runInference returns the trajectory or throws
WorkerRun(w) ==
    /\ status[1] = "ready"
    /\ worker[w].pc = "sampled"
    /\ \E run_ok \in BOOLEAN :
          worker' = [worker EXCEPT ![w] =
             IF run_ok /\ session_[1].conforms
             THEN [@ EXCEPT !.pc = "returned",
                            !.result = runInference(1,
                                Latent(worker[w].seed, config_[1].latent_dim),
                                CHOOSE st \in Starts : TRUE,
                                CHOOSE en \in Ends : TRUE)]
             ELSE [@ EXCEPT !.pc = "threw"]]
    /\ runs' = [runs EXCEPT ![1] = @ + 1]
    /\ UNCHANGED <<status, config_, norm_params_, session_, rng_state_, call,
                   seeds, load_ret, norm_doc, race>>

\* every step of one generator's life
GeneratorStep(g) ==
    \/ Construct(g)
    \/ LoadNormalization(g)
    \/ Generate(g)
    \/ GenerateMultipleStart(g)
    \/ GenerateMultipleStep(g)
    \/ GenerateMultipleReturn(g)

\* ------------------------------------------------------------------------
\* rankTrajectories (trajectory_metrics.cpp)
\* ------------------------------------------------------------------------

\* default weights w1 = 0.3f, w2 = 0.5f, w3 = 0.2f, in tenths
DefaultWeights == <<3, 5, 2>>

\* the 100.0f reference scale of the endpoint-error term
ErrRef == 100

\* score = w1*efficiency + w2*smoothness - w3*(endpoint_error/100.0f),
\* in units of 1/(10*Scale*ErrRef); exact for the fixed-point metrics
ScoreNegErr(m, w) ==
    ErrRef * w[1] * m.path_efficiency + ErrRef * w[2] * m.smoothness_score
    + w[3] * m.endpoint_error

Score(m, w) ==
    ErrRef * w[1] * m.path_efficiency + ErrRef * w[2] * m.smoothness_score
    - w[3] * m.endpoint_error

\* the loop filling `scores`: one (score, i) pair per candidate, i 0-based
ScoresOfSkipEmpty(ts, e, w) ==
    LET kept == SelectSeq([i \in 1..Len(ts) |-> i], LAMBDA i : ts[i] # <<>>)
    IN  [k \in 1..Len(kept) |->
            <<Score(evaluateTrajectory(ts[kept[k]], e), w), kept[k] - 1>>]

ScoresOf(ts, e, w) ==
    [i \in 1..Len(ts) |-> <<Score(evaluateTrajectory(ts[i], e), w), i - 1>>]

\* the comparator handed to std::sort: a.first > b.first
ScoreLess(a, b) == a[1] < b[1]

ScoreGreater(a, b) == a[1] > b[1]

\* std::sort(first, last, comp): every arrangement of s in which no element
\* is placed after one it must precede; the order of equivalent elements is
\* unspecified (std::sort is not stable), so all such arrangements can result
RECURSIVE SortFrom(_, _, _)
SortFrom(s, idx, before) ==
    IF idx = {} THEN {<<>>}
    ELSE UNION { { <<s[i]>> \o rest : rest \in SortFrom(s, idx \ {i}, before) } :
                 i \in { i \in idx : \A j \in idx : ~before[j, i] } }

\* before[i, j]: the comparator's answer comp(s[i], s[j])
StdSort(s, before) == SortFrom(s, DOMAIN s, before)

\* the lambda of rankTrajectories applied to every pair of elements
ScoreGreaterOn(s) ==
    [i \in DOMAIN s, j \in DOMAIN s |-> ScoreGreater(s[i], s[j])]

\* ---- inputs of the ranking specification ----

\* most candidates handed to one ranking call
MaxCand == 3

\* candidate trajectories: empty, single point, repeated point, straight
\* (two lengths), right-angle bend, out-and-back
CandidatePool ==
    { <<>>,
      <<P000>>,
      <<P000, P000>>,
      <<P000, P340>>,
      <<P000, P300>>,
      <<P000, P300, P340>>,
      <<P000, P340, P000>> }

ExpectedEnds == {P340, P680}

WeightTriples == {DefaultWeights, <<0, 0, 2>>, <<3, 5, 0>>}

SeqsUpTo(S, n) == UNION { [1..k -> S] : k \in 0..n }

RankInit ==
    /\ trajectories \in SeqsUpTo(CandidatePool, MaxCand)
    /\ expected_end \in ExpectedEnds
    /\ weights \in WeightTriples
    /\ scores = <<>>
    /\ ranked_indices = <<>>
    /\ rank_pc = "call"

RankIdle ==
    /\ trajectories = <<>>
    /\ expected_end = P340
    /\ weights = DefaultWeights
    /\ scores = <<>>
    /\ ranked_indices = <<>>
    /\ rank_pc = "idle"

\* the whole of rankTrajectories(trajectories, expected_end, w1, w2, w3)
RankTrajectories ==
    /\ rank_pc = "call"
    /\ \E unsorted \in {ScoresOf(trajectories, expected_end, weights)} :
       \E sorted \in StdSort(unsorted, ScoreGreaterOn(unsorted)) :
          /\ scores' = sorted
          /\ ranked_indices' = [k \in 1..Len(sorted) |-> sorted[k][2]]
    /\ rank_pc' = "done"
    /\ UNCHANGED <<trajectories, expected_end, weights>>
    /\ UNCHANGED genVars
    /\ UNCHANGED concVars
    /\ UNCHANGED appVars
    /\ UNCHANGED fnVars
    /\ UNCHANGED plotVars

\* ------------------------------------------------------------------------
\* The application (trajectory_app.cpp)
\* ------------------------------------------------------------------------

\* candidates main asks generateMultiple for (int n_candidates = 10,
\* scaled down)
n_candidates == 6

\* the 5 of std::min(5, rankings.size())
TopK == 5

\* the 1000.0f and 100.0f of normalized_length, in metres
LengthRef == 1000
LengthFloor == 100

\* a waypoint with three finite coordinates
FiniteWaypoint(p) == IsFinite(p.x) /\ IsFinite(p.y) /\ IsFinite(p.z)

\* std::sqrt(dx*dx + dy*dy + dz*dz) of two waypoints: NaN as soon as a
\* coordinate of either is NaN
DistF(p, q) ==
    IF FiniteWaypoint(p) /\ FiniteWaypoint(q) THEN Dist(p, q) ELSE NaN

\* the utility functions of trajectory_inference.cpp the application links
computePathLengthUtil(t) ==
    LET segs == [i \in 1..(Len(t) - 1) |-> DistF(t[i], t[i + 1])]
    IN  IF \E i \in DOMAIN segs : segs[i] = NaN THEN NaN ELSE SumSeq(segs)

\* the curvatures pushed from interior point i on; a NaN norm fails the
\* test norm > 1e-6f and the point is skipped
RECURSIVE CurvaturesFromUtil(_, _)
CurvaturesFromUtil(t, i) ==
    IF i > Len(t) - 1 THEN <<>>
    ELSE LET c == IF DistF(t[i - 1], t[i]) = NaN \/ DistF(t[i], t[i + 1]) = NaN
                  THEN -1 ELSE CurvatureAt(t, i)
         IN  (IF c >= 0 THEN <<c>> ELSE <<>>) \o CurvaturesFromUtil(t, i + 1)

computeAverageCurvatureUtil(t) ==
    IF Len(t) < 3 THEN 0
    ELSE LET curvatures == CurvaturesFromUtil(t, 2)
         IN  IF curvatures = <<>> THEN 0
             ELSE SumSeq(curvatures) \div Len(curvatures)

computeSmoothnessScoreUtil(t) ==
    (Scale * Scale) \div (Scale + computeAverageCurvatureUtil(t))

\* traj.back() - traj.front(): defined on a trajectory with a point
straightDist(t) == DistF(t[1], t[Len(t)])

\* efficiency as the application computes it; on an empty trajectory the
\* straight distance is whatever the invalid reads give, and the path
\* length 0 then selects the 0.0f branch
efficiencyOf(t) ==
    LET length == computePathLengthUtil(t)
    IN  IF length # NaN /\ length > 0
        THEN (straightDist(t) * Scale) \div length
        ELSE 0

\* std::max(a, b) is (a < b) ? b : a, which is a when b is NaN
FloatMax(a, b) == IF b = NaN THEN a ELSE Max(a, b)

\* variant scoring with the library's path efficiency (1.0 below two points)
computeQualityScoreLibraryEfficiency(t) ==
    LET length     == computePathLengthUtil(t)
        smoothness == computeSmoothnessScoreUtil(t)
        efficiency == computePathEfficiency(t)
        normalized_length ==
            Min(Scale, (LengthRef * Scale * Scale)
                       \div FloatMax(LengthFloor * Scale, length))
    IN  5 * smoothness + 3 * efficiency + 2 * normalized_length

\* computeQualityScore: 0.5*smoothness + 0.3*efficiency
\* + 0.2*min(1, 1000/max(100, length)), in units of 1/(10*Scale)
computeQualityScore(t) ==
    LET length     == computePathLengthUtil(t)
        smoothness == computeSmoothnessScoreUtil(t)
        efficiency == efficiencyOf(t)
        normalized_length ==
            Min(Scale, (LengthRef * Scale * Scale)
                       \div FloatMax(LengthFloor * Scale, length))
    IN  5 * smoothness + 3 * efficiency + 2 * normalized_length

\* the TrajectoryRanking pushed for trajectories[i] (index 0-based)
RankingOf(ts, i) ==
    [index       |-> i - 1,
     path_length |-> computePathLengthUtil(ts[i]),
     smoothness  |-> computeSmoothnessScoreUtil(ts[i]),
     efficiency  |-> efficiencyOf(ts[i]),
     score       |-> computeQualityScore(ts[i])]

UnsortedRankings(ts) == [i \in 1..Len(ts) |-> RankingOf(ts, i)]

\* TrajectoryRanking::operator<
RankingLess(a, b) == a.score > b.score

RankingLessOn(s) ==
    [i \in DOMAIN s, j \in DOMAIN s |-> RankingLess(s[i], s[j])]

\* std::to_string(score).substr(0, 5): "d.ddd", the score cut to thousandths
ScoreText(score) == score \div 10

\* the label built for position i (0-based) of the ranked list
LabelOf(i, rank) == [number |-> i + 1, score |-> ScoreText(rank.score)]

\* the candidate pushed to top5_trajectories for a ranked entry at position i
SelectedByPosition(all, rank, i) == all[i + 1]

Selected(all, rank, i) == all[rank.index + 1]

AppIdle ==
    /\ app_pc = "idle"
    /\ all_trajectories = <<>>
    /\ rankings = <<>>
    /\ top5_trajectories = <<>>
    /\ labels = <<>>
    /\ app_ub = FALSE

AppInit ==
    /\ app_pc = "start"
    /\ all_trajectories = <<>>
    /\ rankings = <<>>
    /\ top5_trajectories = <<>>
    /\ labels = <<>>
    /\ app_ub = FALSE

appData == <<all_trajectories, rankings, top5_trajectories, labels, app_ub>>

\* main: TrajectoryGenerator generator(gen_config); a throw ends main with 1
AppConstruct ==
    /\ app_pc = "start"
    /\ Construct(1)
    /\ app_pc' = IF status'[1] = "ready" THEN "constructed" ELSE "exit1"
    /\ UNCHANGED appData

\* the files config.norm_path names: one that cannot be opened, one with
\* both arrays, one with a zero std
AppDocuments ==
    {doc \in Documents :
        \/ ~doc.openable
        \/ /\ doc.mean.found /\ doc.std.found
           /\ Len(doc.mean.tokens) = 3 /\ Len(doc.std.tokens) = 3
           /\ ~stofThrows(doc.mean)}

\* main: generator.loadNormalization(config.norm_path); false only warns
AppLoadNormalization ==
    /\ app_pc = "constructed"
    /\ LoadNormalizationFrom(1, AppDocuments)
    /\ app_pc' = "normalized"
    /\ UNCHANGED appData

\* main: the call generateMultiple(config.start, config.end, n_candidates)
AppGenerateCall ==
    /\ app_pc = "normalized"
    /\ \E start \in Starts : \E end \in Ends :
          GenerateMultipleCall(1, start, end, n_candidates)
    /\ app_pc' = "generating"
    /\ UNCHANGED appData

AppGenerateStep ==
    /\ app_pc = "generating"
    /\ GenerateMultipleStep(1)
    /\ app_pc' = IF call'[1].pc = "threw" THEN "exit1" ELSE "generating"
    /\ UNCHANGED appData

AppGenerateReturn ==
    /\ app_pc = "generating"
    /\ GenerateMultipleReturn(1)
    /\ all_trajectories' = call'[1].result
    /\ app_pc' = "generated"
    /\ UNCHANGED <<rankings, top5_trajectories, labels, app_ub>>

\* main: rankTrajectories(all_trajectories) and the top-5 loop.  back() and
\* front() on an empty candidate are undefined: the process may die there,
\* or go on with the 0.0f efficiency
AppRankAndSelect ==
    /\ app_pc = "generated"
    /\ \E ub \in {\E i \in DOMAIN all_trajectories : all_trajectories[i] = <<>>} :
          /\ app_ub' = ub
          /\ \/ /\ ub
                /\ app_pc' = "crashed"
                /\ UNCHANGED <<rankings, top5_trajectories, labels>>
             \/ \E unsorted \in {UnsortedRankings(all_trajectories)} :
                \E sorted \in StdSort(unsorted, RankingLessOn(unsorted)) :
                   LET k == Min(TopK, Len(sorted))
                   IN  /\ rankings' = sorted
                       /\ top5_trajectories' =
                             [i \in 1..k |->
                                Selected(all_trajectories, sorted[i], i - 1)]
                       /\ labels' = [i \in 1..k |-> LabelOf(i - 1, sorted[i])]
                       /\ app_pc' = "selected"
    /\ UNCHANGED all_trajectories
    /\ UNCHANGED genVars

InitRank == RankInit /\ GenIdle /\ ConcIdle /\ AppIdle /\ FnIdle /\ PlotIdle

NextRank == RankTrajectories

SpecRank == InitRank /\ [][NextRank]_vars

\* ---- properties of rankTrajectories ----

\* metrics and score of every candidate under the call's arguments
\* (position i + 1 holds those of the candidate with 0-based index i)
MetricsOfAll ==
    [i \in 1..Len(trajectories) |->
        evaluateTrajectory(trajectories[i], expected_end)]

ScoreOfAll ==
    [i \in 1..Len(trajectories) |->
        LET m == evaluateTrajectory(trajectories[i], expected_end)
        IN  ErrRef * weights[1] * m.path_efficiency
            + ErrRef * weights[2] * m.smoothness_score
            - weights[3] * m.endpoint_error]

\* position (1-based) of 0-based index i in the returned vector
PosOf(i) == CHOOSE k \in 1..Len(ranked_indices) : ranked_indices[k] = i

\* C1: rankTrajectories returns a sequence of length n in which each index
\* 0..n-1 occurs exactly once (empty candidates included).
C1_RankIsPermutation ==
    rank_pc = "done" =>
        /\ Len(ranked_indices) = Len(trajectories)
        /\ \A i \in 0..(Len(trajectories) - 1) :
              Cardinality({k \in 1..Len(ranked_indices) :
                              ranked_indices[k] = i}) = 1

C1_Witness ==
    /\ rank_pc = "done"
    /\ Len(trajectories) = MaxCand
    /\ \E i \in 1..Len(trajectories) : trajectories[i] = <<>>
    /\ \E i \in 1..Len(trajectories) : Len(trajectories[i]) >= 3
    /\ ranked_indices[1] # 0

\* C2: in the returned sequence scores are non-increasing by position.
C2_ScoresNonIncreasing ==
    rank_pc = "done" =>
        \A sc \in {ScoreOfAll} :
            \A p \in 1..Len(ranked_indices) : \A q \in 1..Len(ranked_indices) :
                p < q => sc[ranked_indices[p] + 1] >= sc[ranked_indices[q] + 1]

C2_Witness ==
    /\ rank_pc = "done"
    /\ Len(ranked_indices) = MaxCand
    /\ ranked_indices[1] # 0
    /\ \E sc \in {ScoreOfAll} :
          \A p \in 1..(Len(ranked_indices) - 1) :
             sc[ranked_indices[p] + 1] > sc[ranked_indices[p + 1] + 1]

\* C3: candidates with exactly equal scores are returned in ascending order
\* of their original index.
C3_TiesByAscendingIndex ==
    rank_pc = "done" =>
        \A sc \in {ScoreOfAll} :
            \A p \in 1..Len(ranked_indices) : \A q \in 1..Len(ranked_indices) :
                (p < q /\ sc[ranked_indices[p] + 1] = sc[ranked_indices[q] + 1])
                => ranked_indices[p] < ranked_indices[q]

InitGen == RankIdle /\ GenIdle /\ ConcIdle /\ AppIdle /\ FnIdle /\ PlotIdle

NextGen ==
    \/ Construct(1) /\ UNCHANGED <<rankVars, concVars, appVars, fnVars, plotVars>>
    \/ LoadNormalization(1) /\ UNCHANGED <<rankVars, concVars, appVars, fnVars, plotVars>>
    \/ Generate(1) /\ UNCHANGED <<rankVars, concVars, appVars, fnVars, plotVars>>
    \/ GenerateMultipleStart(1) /\ UNCHANGED <<rankVars, concVars, appVars, fnVars, plotVars>>
    \/ GenerateMultipleStep(1) /\ UNCHANGED <<rankVars, concVars, appVars, fnVars, plotVars>>
    \/ GenerateMultipleReturn(1) /\ UNCHANGED <<rankVars, concVars, appVars, fnVars, plotVars>>

SpecGen == InitGen /\ [][NextGen]_vars

\* Specification of two generators, each constructed and asked to generate
InitSeed == RankIdle /\ GenIdle /\ ConcIdle /\ AppIdle /\ FnIdle /\ PlotIdle

NextSeed ==
    \/ \E g \in Gens : Construct(g) /\ UNCHANGED <<rankVars, concVars, appVars, fnVars, plotVars>>
    \/ \E g \in Gens : Generate(g) /\ UNCHANGED <<rankVars, concVars, appVars, fnVars, plotVars>>

SpecSeed == InitSeed /\ [][NextSeed]_vars

\* Specification of several threads calling generate on one generator
InitConc == RankIdle /\ GenIdle /\ ConcIdle /\ AppIdle /\ FnIdle /\ PlotIdle

NextConc ==
    \/ Construct(1) /\ UNCHANGED <<rankVars, concVars, appVars, fnVars, plotVars>>
    \/ \E w \in Workers : WorkerLoad(w) /\ UNCHANGED <<rankVars, appVars, fnVars, plotVars>>
    \/ \E w \in Workers : WorkerStore(w) /\ UNCHANGED <<rankVars, appVars, fnVars, plotVars>>
    \/ \E w \in Workers : WorkerRun(w) /\ UNCHANGED <<rankVars, appVars, fnVars, plotVars>>

SpecConc == InitConc /\ [][NextConc]_vars

\* ------------------------------------------------------------------------
\* The metrics functions called one at a time (trajectory_metrics.cpp)
\* ------------------------------------------------------------------------

\* mean squared second difference, in metres^2 / Scale
computeSecondOrderSmoothness(t) ==
    IF Len(t) < 3 THEN 0
    ELSE LET acc(i) ==
                 LET ax == t[i + 1].x - 2 * t[i].x + t[i - 1].x
                     ay == t[i + 1].y - 2 * t[i].y + t[i - 1].y
                     az == t[i + 1].z - 2 * t[i].z + t[i - 1].z
                 IN  ax * ax + ay * ay + az * az
             smoothness_loss == SumSeq([i \in 1..(Len(t) - 2) |-> acc(i + 1)])
         IN  (smoothness_loss * Scale) \div (Len(t) - 2)

\* computeDiversity, inner loops: the summed waypoint distance of a pair
\* over the first min_len points, divided by min_len
pairMinLen(t1, t2) == Min(Len(t1), Len(t2))

pairDistance(t1, t2) ==
    LET min_len  == pairMinLen(t1, t2)
        distance == SumSeq([k \in 1..min_len |-> Dist(t1[k], t2[k])])
    IN  FloatDiv(distance, min_len)

\* the pairs (i, j), i < j, of the outer loops
diversityPairs(ts) ==
    {p \in (1..Len(ts)) \X (1..Len(ts)) : p[1] < p[2]}

RECURSIVE SumOver(_, _)
SumOver(f, S) ==
    IF S = {} THEN 0
    ELSE LET x == CHOOSE y \in S : TRUE IN f[x] + SumOver(f, S \ {x})

computeDiversity(ts) ==
    IF Len(ts) < 2 THEN 0
    ELSE LET pairs == diversityPairs(ts)
             d     == [p \in pairs |-> pairDistance(ts[p[1]], ts[p[2]])]
         IN  IF \E p \in pairs : d[p] = NaN THEN NaN
             ELSE SumOver(d, pairs) \div Cardinality(pairs)

\* default arguments of isTrajectoryValid: 0.1 rad/m (in 1/Scale rad/m),
\* 50 m and 1000 m
DefaultMaxCurvature == 100
DefaultMinAltitude == 50
DefaultMaxAltitude == 1000

\* variant rejecting a maximum curvature equal to the threshold
isTrajectoryValidNonStrict(t, max_curvature, min_altitude, max_altitude) ==
    IF t = <<>> THEN FALSE
    ELSE IF computeMaxCurvature(t) >= max_curvature THEN FALSE
    ELSE \A i \in 1..Len(t) :
            ~(t[i].z < min_altitude \/ t[i].z > max_altitude)

isTrajectoryValid(t, max_curvature, min_altitude, max_altitude) ==
    IF t = <<>> THEN FALSE
    ELSE IF computeMaxCurvature(t) > max_curvature THEN FALSE
    ELSE \A i \in 1..Len(t) :
            ~(t[i].z < min_altitude \/ t[i].z > max_altitude)

\* trajectories at the altitude limits: a wide right-angle bend and a tight
\* one at 50 m, a straight run of three points, single points on and just
\* outside the limits, and two-point trajectories leaving the limits at the
\* second point
WideBend == <<Waypoint(0, 0, 50), Waypoint(20, 0, 50), Waypoint(20, 20, 50)>>
TightBend == <<Waypoint(0, 0, 50), Waypoint(3, 0, 50), Waypoint(3, 4, 50)>>

\* the candidates and a straight run of three points
MetricsPool == CandidatePool \cup { <<P000, P340, P680>> }

ValidityPool ==
    MetricsPool
    \cup { WideBend,
           TightBend,
           <<Waypoint(0, 0, 49)>>,
           <<Waypoint(0, 0, 50)>>,
           <<Waypoint(0, 0, 1000)>>,
           <<Waypoint(0, 0, 1001)>>,
           <<Waypoint(0, 0, 50), Waypoint(0, 0, 45)>>,
           <<Waypoint(0, 0, 1000), Waypoint(3, 4, 1001)>> }

Limits(c, lo, hi) ==
    [max_curvature |-> c, min_altitude |-> lo, max_altitude |-> hi]

DefaultLimits ==
    Limits(DefaultMaxCurvature, DefaultMinAltitude, DefaultMaxAltitude)

\* the defaults, a threshold equal to the wide bend's maximum curvature, a
\* threshold above the tight bend's, and limits admitting altitude 0
LimitChoices ==
    { DefaultLimits,
      Limits(computeMaxCurvature(WideBend), DefaultMinAltitude,
             DefaultMaxAltitude),
      Limits(computeMaxCurvature(TightBend) + 1, DefaultMinAltitude,
             DefaultMaxAltitude),
      Limits(DefaultMaxCurvature, 0, DefaultMaxAltitude) }

\* ---- the divisor of every division a call performs ----

computePathEfficiencyDivisors(t) ==
    IF Len(t) < 2 \/ computePathLength(t) * Scale < EpsMicro THEN {}
    ELSE {computePathLength(t)}

computeCurvaturesDivisors(t) ==
    IF Len(t) < 3 THEN {}
    ELSE UNION { LET norm1 == Dist(t[i - 1], t[i])
                     norm2 == Dist(t[i], t[i + 1])
                 IN  IF norm1 * Scale > EpsMicro /\ norm2 * Scale > EpsMicro
                     THEN {norm1 * norm2, norm1}
                     ELSE {} : i \in 2..(Len(t) - 1) }

computeAverageCurvatureDivisors(t) ==
    computeCurvaturesDivisors(t)
    \cup (IF computeCurvatures(t) = <<>> THEN {}
          ELSE {Len(computeCurvatures(t))})

computeSmoothnessScoreDivisors(t) ==
    computeAverageCurvatureDivisors(t)
    \cup {Scale + computeAverageCurvature(t)}

computeAverageVelocityDivisors(t) ==
    IF Len(t) < 2 THEN {} ELSE {Len(t) - 1}

computeSecondOrderSmoothnessDivisors(t) ==
    IF Len(t) < 3 THEN {} ELSE {Len(t) - 2}

evaluateTrajectoryDivisors(t) ==
    IF t = <<>> THEN {}
    ELSE computePathEfficiencyDivisors(t)
         \cup computeAverageCurvatureDivisors(t)
         \cup computeSmoothnessScoreDivisors(t)
         \cup computeAverageVelocityDivisors(t)
         \cup {Len(t)}

computeDiversityDivisors(ts) ==
    IF Len(ts) < 2 THEN {}
    ELSE {pairMinLen(ts[p[1]], ts[p[2]]) : p \in diversityPairs(ts)}
         \cup {Cardinality(diversityPairs(ts))}

\* the functions taking one trajectory
TrajectoryOps ==
    {"computePathEfficiency", "computeCurvatures", "computeAverageCurvature",
     "computeSmoothnessScore", "computeAverageVelocity",
     "computeSecondOrderSmoothness", "evaluateTrajectory"}

metricsValue(in) ==
    CASE in.op = "computePathEfficiency" -> computePathEfficiency(in.t)
      [] in.op = "computeCurvatures" -> computeCurvatures(in.t)
      [] in.op = "computeAverageCurvature" -> computeAverageCurvature(in.t)
      [] in.op = "computeSmoothnessScore" -> computeSmoothnessScore(in.t)
      [] in.op = "computeAverageVelocity" -> computeAverageVelocity(in.t)
      [] in.op = "computeSecondOrderSmoothness" ->
            computeSecondOrderSmoothness(in.t)
      [] in.op = "evaluateTrajectory" -> evaluateTrajectory(in.t, in.e)
      [] in.op = "computeDiversity" -> computeDiversity(in.ts)
      [] in.op = "isTrajectoryValid" ->
            isTrajectoryValid(in.t, in.lim.max_curvature,
                              in.lim.min_altitude, in.lim.max_altitude)

metricsDivisors(in) ==
    CASE in.op = "computePathEfficiency" -> computePathEfficiencyDivisors(in.t)
      [] in.op = "computeCurvatures" -> computeCurvaturesDivisors(in.t)
      [] in.op = "computeAverageCurvature" ->
            computeAverageCurvatureDivisors(in.t)
      [] in.op = "computeSmoothnessScore" ->
            computeSmoothnessScoreDivisors(in.t)
      [] in.op = "computeAverageVelocity" ->
            computeAverageVelocityDivisors(in.t)
      [] in.op = "computeSecondOrderSmoothness" ->
            computeSecondOrderSmoothnessDivisors(in.t)
      [] in.op = "evaluateTrajectory" -> evaluateTrajectoryDivisors(in.t)
      [] in.op = "computeDiversity" -> computeDiversityDivisors(in.ts)
      [] in.op = "isTrajectoryValid" ->
            IF in.t = <<>> THEN {} ELSE computeCurvaturesDivisors(in.t)

InitMetrics ==
    /\ RankIdle /\ GenIdle /\ ConcIdle /\ AppIdle /\ PlotIdle
    /\ fn_pc = "call"
    /\ fn_in \in
          [op : TrajectoryOps, t : MetricsPool, e : ExpectedEnds,
           ts : {<<>>}, lim : {DefaultLimits}]
          \cup [op : {"computeDiversity"}, t : {<<>>}, e : {P340},
                ts : SeqsUpTo(CandidatePool, MaxCand),
                lim : {DefaultLimits}]
          \cup [op : {"isTrajectoryValid"}, t : ValidityPool, e : {P340},
                ts : {<<>>}, lim : LimitChoices]
    /\ fn_out = <<>>

\* one call of a metrics function
MetricsCall ==
    /\ fn_pc = "call"
    /\ fn_out' = [value |-> metricsValue(fn_in),
                  divisors |-> metricsDivisors(fn_in)]
    /\ fn_pc' = "done"
    /\ UNCHANGED <<fn_in, rankVars, genVars, concVars, appVars, plotVars>>

NextMetrics == MetricsCall

SpecMetrics == InitMetrics /\ [][NextMetrics]_vars

\* Specification of one normalize / denormalize round trip
RoundTripCoords == {-5, 0, 4, 9}

RoundTripParams ==
    [mean : {<<0, 0, 0>>, <<1, -3, 7>>},
     std  : {<<1, 1, 1>>, <<2, 3, 7>>, <<-2, 3, 1>>, <<1, 0, 2>>}]

InitRoundTrip ==
    /\ RankIdle /\ GenIdle /\ ConcIdle /\ AppIdle /\ PlotIdle
    /\ fn_pc = "call"
    /\ fn_in \in [np : RoundTripParams,
                  wp : {Waypoint(x_, y_, z_) : x_ \in RoundTripCoords,
                        y_ \in RoundTripCoords, z_ \in RoundTripCoords}]
    /\ fn_out = <<>>

\* denormalize(normalize(wp)) under the parameters np
RoundTrip ==
    /\ fn_pc = "call"
    /\ LET normalized == normalizeWith(fn_in.np, fn_in.wp)
       IN  fn_out' = [normalized |-> normalized,
                      wp |-> denormalizeWith(fn_in.np, normalized)]
    /\ fn_pc' = "done"
    /\ UNCHANGED <<fn_in, rankVars, genVars, concVars, appVars, plotVars>>

NextRoundTrip == RoundTrip

SpecRoundTrip == InitRoundTrip /\ [][NextRoundTrip]_vars

\* Specification of the application's main
InitApp == RankIdle /\ GenIdle /\ ConcIdle /\ AppInit /\ FnIdle /\ PlotIdle

NextApp ==
    \/ AppConstruct /\ UNCHANGED <<rankVars, concVars, fnVars, plotVars>>
    \/ AppLoadNormalization /\ UNCHANGED <<rankVars, concVars, fnVars, plotVars>>
    \/ AppGenerateCall /\ UNCHANGED <<rankVars, concVars, fnVars, plotVars>>
    \/ AppGenerateStep /\ UNCHANGED <<rankVars, concVars, fnVars, plotVars>>
    \/ AppGenerateReturn /\ UNCHANGED <<rankVars, concVars, fnVars, plotVars>>
    \/ AppRankAndSelect /\ UNCHANGED <<rankVars, concVars, fnVars, plotVars>>

SpecApp == InitApp /\ [][NextApp]_vars

\* ---- properties of the generator ----

\* the trajectory generate returns on generator g for a given seed
TrajectoryForSeed(g, seed, start, end) ==
    LET output == Infer(session_[g], Latent(seed, config_[g].latent_dim),
                        normalize(g, start), normalize(g, end))
    IN  [k \in 1..Len(output) |-> denormalize(g, output[k])]

\* the latent vectors generator g has drawn so far, in order
LatentsDrawn(g) ==
    [k \in 1..Len(seeds[g]) |-> Latent(seeds[g][k], config_[g].latent_dim)]

\* C6: every successful generate call returns a trajectory whose length is
\* exactly the generator's configured sequence length (getSeqLen()).
C6_LengthIsConfiguredSeqLen ==
    \A g \in Gens :
        (call[g].op = "generate" /\ call[g].pc = "returned")
        => Len(call[g].result) = getSeqLen(g)

\* C7: a generateMultiple(start, end, n) call that returns has performed
\* exactly n generate calls in order, each drawing its own latent (the
\* counter advanced by n), and returns n trajectories, the i-th being the
\* result of the i-th call.
C7_GenerateMultipleReturnsN ==
    \A g \in Gens :
        (call[g].op = "generateMultiple" /\ call[g].pc = "returned") =>
            LET c == call[g]
                n == c.n_samples
            IN  /\ Len(c.result) = n
                /\ Len(seeds[g]) = c.seeds0 + n
                /\ runs[g] = c.runs0 + n
                /\ rng_state_[g] = (c.rng0 + n) % RngModulus
                /\ \A i \in 1..n :
                      /\ seeds[g][c.seeds0 + i] = (c.rng0 + i - 1) % RngModulus
                      /\ c.result[i] =
                            TrajectoryForSeed(g, seeds[g][c.seeds0 + i],
                                              c.start, c.end)

C7_Witness ==
    /\ call[1].op = "generateMultiple"
    /\ call[1].pc = "returned"
    /\ call[1].n_samples = MaxSamples
    /\ call[1].seeds0 > 0
    /\ Len(call[1].result) = MaxSamples
    /\ call[1].result[1] # call[1].result[2]

\* C9: every sampleLatent call seeds its engine from the current counter
\* and advances the counter by one modulo 2^RngBits, so the seeds of fewer
\* than 2^RngBits sequential calls on one generator are pairwise distinct.
C9_SeedsDistinct ==
    \A g \in Gens :
        /\ \A k \in 1..Len(seeds[g]) :
              seeds[g][k] = (seeds[g][1] + k - 1) % RngModulus
        /\ Len(seeds[g]) > 0 =>
              rng_state_[g] = (seeds[g][Len(seeds[g])] + 1) % RngModulus
        /\ Len(seeds[g]) < RngModulus =>
              \A j \in 1..Len(seeds[g]) : \A k \in 1..Len(seeds[g]) :
                  j # k => seeds[g][j] # seeds[g][k]

C9_Witness ==
    /\ Len(seeds[1]) = RngModulus - 1
    /\ seeds[1][1] = RngModulus - 1
    /\ seeds[1][2] = 0

\* C10: two generators created with the same explicit seed (the constructor
\* takes nothing but the configuration) and driven by the same sequence of
\* generate calls draw identical latent-vector sequences, whatever the time
\* of their construction.
C10_SameConfigSameLatents ==
    ( /\ status[1] = "ready"
      /\ status[2] = "ready"
      /\ config_[1] = config_[2]
      /\ Len(seeds[1]) = Len(seeds[2]) )
    => LatentsDrawn(1) = LatentsDrawn(2)

\* ---- properties of the application ----

\* C5: once main has ranked and selected, the selection is the first
\* min(5, n) entries of the ranked list in ranked order: the i-th selected
\* trajectory is all_trajectories[rankings[i].index], its label carries the
\* position and the (printed) score of rankings[i], that score is the
\* quality score of that same candidate, and no candidate index occurs twice.
C5_TopKIsRankedPrefix ==
    app_pc = "selected" =>
        LET n == Len(all_trajectories)
            k == Min(TopK, n)
        IN  /\ Len(rankings) = n
            /\ Len(top5_trajectories) = k
            /\ Len(labels) = k
            /\ \A i \in 1..n :
                  /\ rankings[i].index \in 0..(n - 1)
                  /\ rankings[i].score =
                        computeQualityScore(
                            all_trajectories[rankings[i].index + 1])
            /\ \A i \in 1..k :
                  /\ top5_trajectories[i] =
                        all_trajectories[rankings[i].index + 1]
                  /\ labels[i].number = i
                  /\ labels[i].score = ScoreText(rankings[i].score)
            /\ \A i \in 1..k : \A j \in 1..k :
                  i # j => rankings[i].index # rankings[j].index
            /\ \A i \in 1..(n - 1) : rankings[i].score >= rankings[i + 1].score

\* main selected five of more than five candidates, the best one is not the
\* first generated, and a candidate with a lower score was left out
C5_Witness ==
    /\ app_pc = "selected"
    /\ Len(all_trajectories) > TopK
    /\ Len(top5_trajectories) = TopK
    /\ rankings[1].index # 0
    /\ rankings[Len(rankings)].score < rankings[TopK].score
    /\ top5_trajectories[1] # all_trajectories[1]

\* ---- properties of concurrent callers ----

\* C11: with several threads calling generate on one generator, the
\* read-and-increment of rng_state_ is atomic: no two calls obtain the same
\* seed, and once k calls have sampled and none is in the middle of the
\* increment the counter is its initial value plus k.
C11_AtomicCounter ==
    LET drawn == seeds[1]
        k     == Len(drawn)
    IN  /\ \A i \in 1..k : \A j \in 1..k : i # j => drawn[i] # drawn[j]
        /\ (k > 0 /\ \A w \in Workers : worker[w].pc # "loaded")
              => rng_state_[1] = (drawn[1] + k) % RngModulus

\* ---- properties of loadNormalization and normalize ----

\* C12: loadNormalization returns true only for a file that could be opened
\* and holds both the "mean" and the "std" key; it never reports success
\* with one field parsed and the other left at its default.
C12_LoadFailsOnAbsentField ==
    \A g \in Gens :
        load_ret[g] = "true" =>
            /\ norm_doc[g].openable
            /\ norm_doc[g].mean.found
            /\ norm_doc[g].std.found

\* C13: loadNormalization returns true only for a file whose "mean" and
\* "std" arrays, where present, have exactly 3 numeric entries; an array
\* with fewer or more entries is rejected.
C13_LoadRejectsWrongLength ==
    \A g \in Gens :
        load_ret[g] = "true" =>
            /\ norm_doc[g].mean.found => Len(norm_doc[g].mean.tokens) = 3
            /\ norm_doc[g].std.found => Len(norm_doc[g].std.tokens) = 3

\* C14: whenever normalize has been executed by the generation call on
\* record (the call has reached session_->Run), all three std components of
\* the active normalization parameters are nonzero.
C14_StdNonzeroWhenNormalizing ==
    \A g \in Gens :
        (call[g].op # "none" /\ runs[g] > call[g].runs0) =>
            \A k \in 1..3 : norm_params_[g].std[k] # 0

C16_ReadyMeansConforming ==
    \A g \in Gens :
        (status[g] = "ready" /\ isReady(g)) => session_[g].conforms

\* ---- properties of the metrics functions ----

\* C17: no metrics function divides by zero: every division performed by a
\* call of computePathEfficiency, computeCurvatures, computeAverageCurvature,
\* computeAverageVelocity, computeSecondOrderSmoothness, evaluateTrajectory
\* or computeDiversity, on any trajectory or set of trajectories, has a
\* nonzero divisor.
C17_NoDivisionByZero ==
    fn_pc = "done" => 0 \notin fn_out.divisors

\* C18: each field of the bundle evaluateTrajectory returns equals the
\* standalone metric function on the same trajectory, the empty trajectory
\* included.
C18_BundleEqualsStandalone ==
    (fn_pc = "done" /\ fn_in.op = "evaluateTrajectory") =>
        LET m == fn_out.value
            t == fn_in.t
        IN  /\ m.path_length = computePathLength(t)
            /\ m.straight_line_distance = computeStraightLineDistance(t)
            /\ m.path_efficiency = computePathEfficiency(t)
            /\ m.avg_curvature = computeAverageCurvature(t)
            /\ m.max_curvature = computeMaxCurvature(t)
            /\ m.smoothness_score = computeSmoothnessScore(t)
            /\ m.endpoint_error = computeEndpointError(t, fn_in.e)
            /\ m.avg_velocity = computeAverageVelocity(t)

\* C19: the smoothness score is in (0, 1] for every trajectory, both as
\* returned by computeSmoothnessScore and as the smoothness_score field of
\* evaluateTrajectory.
C19_SmoothnessInRange ==
    /\ (fn_pc = "done" /\ fn_in.op = "computeSmoothnessScore") =>
          (0 < fn_out.value /\ fn_out.value <= Scale)
    /\ (fn_pc = "done" /\ fn_in.op = "evaluateTrajectory") =>
          (0 < fn_out.value.smoothness_score
           /\ fn_out.value.smoothness_score <= Scale)

\* C20: path efficiency is in (0, 1] for every trajectory, both as returned
\* by computePathEfficiency and as the path_efficiency field of
\* evaluateTrajectory: never 0 and never above 1.
C20_EfficiencyInRange ==
    /\ (fn_pc = "done" /\ fn_in.op = "computePathEfficiency") =>
          (0 < fn_out.value /\ fn_out.value <= Scale)
    /\ (fn_pc = "done" /\ fn_in.op = "evaluateTrajectory") =>
          (0 < fn_out.value.path_efficiency
           /\ fn_out.value.path_efficiency <= Scale)

C22_ValidExactly ==
    /\ DefaultLimits = Limits(Scale \div 10, 50, 1000)
    /\ (fn_pc = "done" /\ fn_in.op = "isTrajectoryValid") =>
          LET t   == fn_in.t
              lim == fn_in.lim
              tooCurved ==
                  t # <<>> /\ computeMaxCurvature(t) > lim.max_curvature
              outside ==
                  \E i \in 1..Len(t) :
                      \/ t[i].z < lim.min_altitude
                      \/ t[i].z > lim.max_altitude
          IN  (fn_out.value = FALSE) <=> (t = <<>> \/ tooCurved \/ outside)

\* a bend whose maximum curvature equals the threshold, at the minimum
\* altitude, is accepted
C22_Witness ==
    /\ fn_pc = "done"
    /\ fn_in.op = "isTrajectoryValid"
    /\ fn_in.t = WideBend
    /\ fn_in.lim.max_curvature = computeMaxCurvature(WideBend)
    /\ fn_in.lim.min_altitude = 50
    /\ fn_out.value = TRUE

\* C23: computeDiversity returns 0 for fewer than 2 trajectories and 0 for
\* every set of two trajectories with identical waypoint sequences, of any
\* length; in general it is the average over all unordered pairs of the
\* mean per-index waypoint distance over the shorter of the two lengths.
C23_DiversityOfIdentical ==
    (fn_pc = "done" /\ fn_in.op = "computeDiversity") =>
        LET ts    == fn_in.ts
            v     == fn_out.value
            pairs == {p \in (1..Len(ts)) \X (1..Len(ts)) : p[1] < p[2]}
            short(p) == Min(Len(ts[p[1]]), Len(ts[p[2]]))
            mean(p) ==
                FloatDiv(SumSeq([k \in 1..short(p) |->
                                    Dist(ts[p[1]][k], ts[p[2]][k])]),
                         short(p))
        IN  /\ Len(ts) < 2 => v = 0
            /\ (Len(ts) = 2 /\ ts[1] = ts[2]) => v = 0
            /\ (Len(ts) >= 2 /\ \A p \in pairs : short(p) > 0) =>
                  v = SumOver([p \in pairs |-> mean(p)], pairs)
                      \div Cardinality(pairs)

\* all waypoints of t on one straight line: every pair of difference
\* vectors from the first waypoint has a zero cross product
Collinear(t) ==
    \A j, k \in 1..Len(t) :
        LET ux == t[j].x - t[1].x
            uy == t[j].y - t[1].y
            uz == t[j].z - t[1].z
            vx == t[k].x - t[1].x
            vy == t[k].y - t[1].y
            vz == t[k].z - t[1].z
        IN  /\ uy * vz - uz * vy = 0
            /\ uz * vx - ux * vz = 0
            /\ ux * vy - uy * vx = 0

\* t turns back at an interior waypoint: two consecutive segments of
\* nonzero length point in opposite directions
Reverses(t) ==
    \E i \in 2..(Len(t) - 1) :
        /\ t[i - 1] # t[i]
        /\ t[i] # t[i + 1]
        /\ (t[i].x - t[i - 1].x) * (t[i + 1].x - t[i].x)
           + (t[i].y - t[i - 1].y) * (t[i + 1].y - t[i].y)
           + (t[i].z - t[i - 1].z) * (t[i + 1].z - t[i].z) < 0

\* the curvature results of a call are those of a straight path
StraightResult ==
    /\ fn_in.op = "computeCurvatures" =>
          \A k \in 1..Len(fn_out.value) : fn_out.value[k] = 0
    /\ fn_in.op = "computeAverageCurvature" => fn_out.value = 0
    /\ fn_in.op = "computeSmoothnessScore" => fn_out.value = Scale
    /\ fn_in.op = "evaluateTrajectory" =>
          (fn_in.t # <<>> =>
              /\ fn_out.value.avg_curvature = 0
              /\ fn_out.value.max_curvature = 0
              /\ fn_out.value.smoothness_score = Scale)

CurvatureOps ==
    {"computeCurvatures", "computeAverageCurvature",
     "computeSmoothnessScore", "evaluateTrajectory"}

C25_GenerateFrame ==
    [][ \A g \in Gens :
          (call'[g] # call[g]
           /\ call'[g].op \in {"generate", "generateMultiple"})
          => /\ config_'[g] = config_[g]
             /\ norm_params_'[g] = norm_params_[g]
             /\ session_'[g] = session_[g]
             /\ status'[g] = status[g] ]_vars

\* a generateMultiple call that returned trajectories, having advanced the
\* counter, on a generator with loaded normalization parameters
C25_Witness ==
    /\ call[1].op = "generateMultiple"
    /\ call[1].pc = "returned"
    /\ Len(call[1].result) >= 1
    /\ rng_state_[1] # call[1].rng0
    /\ norm_params_[1] # DefaultNormalizationParams

\* ------------------------------------------------------------------------
\* The application-level helpers called one at a time: computeQualityScore
\* and rankTrajectories (trajectory_app.cpp), printTrajectoryStats
\* (trajectory_inference.cpp)
\* ------------------------------------------------------------------------

\* traj.front() / traj.back() are executed by each helper without a test of
\* traj.empty(): undefined on an empty vector
readsEmpty(t) == t = <<>>

\* the divisions of computeSmoothnessScore and computeAverageCurvature of
\* trajectory_inference.cpp
smoothnessUtilDivisors(t) ==
    (IF Len(t) < 3 THEN {}
     ELSE computeCurvaturesDivisors(t)
          \cup (IF CurvaturesFromUtil(t, 2) = <<>> THEN {}
                ELSE {Len(CurvaturesFromUtil(t, 2))}))
    \cup {Scale + computeAverageCurvatureUtil(t)}

\* computeQualityScore: straight_dist / length under (length > 0), and
\* 1000 / max(100, length)
computeQualityScoreDivisors(t) ==
    LET length == computePathLengthUtil(t)
    IN  smoothnessUtilDivisors(t)
        \cup (IF length > 0 THEN {length} ELSE {})
        \cup {FloatMax(LengthFloor * Scale, length)}

\* rankTrajectories: per candidate, straight_dist / path_length under
\* (path_length > 0), then computeQualityScore
appRankDivisors(ts) ==
    UNION { computeQualityScoreDivisors(ts[i]) : i \in DOMAIN ts }

\* printTrajectoryStats: straight_dist / path_length with no test; the
\* value is the efficiency printed
printTrajectoryStatsEfficiency(t) ==
    FloatDiv(straightDist(t) * Scale, computePathLengthUtil(t))

printTrajectoryStatsDivisors(t) ==
    smoothnessUtilDivisors(t) \cup {computePathLengthUtil(t)}

UtilOps == {"computeQualityScore", "printTrajectoryStats"}

\* what a call can do: its result and the divisors it used; a call that
\* reads front()/back() of an empty vector either faults (faulted, no
\* result) or goes on with whatever was read (the path length 0 then
\* decides the result)
utilOutcomes(in) ==
    CASE in.op = "computeQualityScore" ->
            {[value |-> computeQualityScore(in.t),
              divisors |-> computeQualityScoreDivisors(in.t),
              invalid_access |-> readsEmpty(in.t), faulted |-> FALSE]}
            \cup (IF readsEmpty(in.t)
                  THEN {[value |-> 0, divisors |-> {},
                         invalid_access |-> TRUE, faulted |-> TRUE]}
                  ELSE {})
      [] in.op = "printTrajectoryStats" ->
            (IF readsEmpty(in.t)
             THEN {[value |-> 0, divisors |-> {},
                    invalid_access |-> TRUE, faulted |-> TRUE],
                   [value |-> NaN,
                    divisors |-> printTrajectoryStatsDivisors(in.t),
                    invalid_access |-> TRUE, faulted |-> FALSE]}
             ELSE {[value |-> printTrajectoryStatsEfficiency(in.t),
                    divisors |-> printTrajectoryStatsDivisors(in.t),
                    invalid_access |-> FALSE, faulted |-> FALSE]})
      [] in.op = "rankTrajectories" ->
            LET unsorted == UnsortedRankings(in.ts)
                empty    == \E i \in DOMAIN in.ts : readsEmpty(in.ts[i])
            IN  {[value |-> sorted, divisors |-> appRankDivisors(in.ts),
                  invalid_access |-> empty, faulted |-> FALSE] :
                    sorted \in StdSort(unsorted, RankingLessOn(unsorted))}
                \cup (IF empty
                      THEN {[value |-> <<>>, divisors |-> {},
                             invalid_access |-> TRUE, faulted |-> TRUE]}
                      ELSE {})

InitUtil ==
    /\ RankIdle /\ GenIdle /\ ConcIdle /\ AppIdle /\ PlotIdle
    /\ fn_pc = "call"
    /\ fn_in \in
          [op : UtilOps, t : MetricsPool, ts : {<<>>}]
          \cup [op : {"rankTrajectories"}, t : {<<>>},
                ts : SeqsUpTo(CandidatePool, MaxCand)]
    /\ fn_out = <<>>

\* one call of an application-level helper
UtilCall ==
    /\ fn_pc = "call"
    /\ fn_out' \in utilOutcomes(fn_in)
    /\ fn_pc' = "done"
    /\ UNCHANGED <<fn_in, rankVars, genVars, concVars, appVars, plotVars>>

NextUtil == UtilCall

SpecUtil == InitUtil /\ [][NextUtil]_vars

\* C26: the application-level ranking (rankTrajectories and
\* computeQualityScore of trajectory_app.cpp) and printTrajectoryStats are
\* total: for every candidate list, one containing an empty trajectory
\* included, they never access the first or last element of an empty
\* trajectory and never divide by a zero path length.
C26_AppHelpersTotal ==
    fn_pc = "done" =>
        /\ ~fn_out.invalid_access
        /\ 0 \notin fn_out.divisors

\* ------------------------------------------------------------------------
\* The two rankings computed on the same candidates: rankTrajectories of
\* trajectory_metrics.cpp with its default weights and rankTrajectories of
\* trajectory_app.cpp
\* ------------------------------------------------------------------------

NonEmptyPool == MetricsPool \ {<<>>}

InitCompare ==
    /\ trajectories \in
          {ts \in SeqsUpTo(NonEmptyPool, MaxCand) : Len(ts) >= 2}
    /\ expected_end \in ExpectedEnds
    /\ weights = DefaultWeights
    /\ scores = <<>>
    /\ ranked_indices = <<>>
    /\ rank_pc = "call"
    /\ GenIdle /\ ConcIdle /\ AppIdle /\ FnIdle /\ PlotIdle

\* both functions called on `trajectories`, each with every arrangement
\* its std::sort may produce
CompareRankings ==
    /\ rank_pc = "call"
    /\ \E unsorted \in {ScoresOf(trajectories, expected_end, weights)} :
       \E sorted \in StdSort(unsorted, ScoreGreaterOn(unsorted)) :
          /\ scores' = sorted
          /\ ranked_indices' = [k \in 1..Len(sorted) |-> sorted[k][2]]
    /\ \E unsorted \in {UnsortedRankings(trajectories)} :
          rankings' \in StdSort(unsorted, RankingLessOn(unsorted))
    /\ rank_pc' = "done"
    /\ UNCHANGED <<trajectories, expected_end, weights>>
    /\ UNCHANGED <<app_pc, all_trajectories, top5_trajectories, labels, app_ub>>
    /\ UNCHANGED genVars
    /\ UNCHANGED concVars
    /\ UNCHANGED fnVars
    /\ UNCHANGED plotVars

NextCompare == CompareRankings

SpecCompare == InitCompare /\ [][NextCompare]_vars

\* a single waypoint and a right-angle bend ending on the expected end
IncompatibleCandidates == << <<P000>>, <<P000, P300, P340>> >>

\* C27: the two default scoring formulas are incompatible: there is a set
\* of at least two non-empty candidates, with an expected end, for which
\* the library rankTrajectories with default weights and the
\* application-level rankTrajectories (0.5*smoothness + 0.3*efficiency
\* + 0.2*min(1, 1000/max(100, length))) return different orderings.  For
\* the candidates (0,0,0) and (0,0,0),(3,0,0),(3,4,0) with expected end
\* (3,4,0) the library puts the first candidate first and the application
\* the second, whatever std::sort does.
C27_OrderingsDiffer ==
    (rank_pc = "done" /\ trajectories = IncompatibleCandidates
        /\ expected_end = P340)
    => /\ ranked_indices = <<0, 1>>
       /\ [k \in 1..Len(rankings) |-> rankings[k].index] = <<1, 0>>

C27_Witness ==
    /\ rank_pc = "done"
    /\ Len(trajectories) >= 2
    /\ \A i \in DOMAIN trajectories : trajectories[i] # <<>>
    /\ trajectories = IncompatibleCandidates
    /\ weights = DefaultWeights
    /\ ranked_indices # [k \in 1..Len(rankings) |-> rankings[k].index]
    /\ scores[1][1] > scores[2][1]
    /\ rankings[1].score > rankings[2].score

\* C28: if the model invocation of the k-th generate call (1 <= k <= n)
\* inside generateMultiple fails, the failure propagates to the caller,
\* none of the k-1 completed trajectories is returned, and the sampling
\* counter has advanced by exactly k (the latent is drawn before the model
\* is invoked).
C28_FailurePropagates ==
    \A g \in Gens :
        (call[g].op = "generateMultiple" /\ call[g].pc = "threw"
            /\ call[g].error = "Ort::Exception") =>
            LET k == call[g].i
            IN  /\ 1 <= k /\ k <= call[g].n_samples
                /\ call[g].result = <<>>
                /\ call[g].acc = <<>>
                /\ rng_state_[g] = (call[g].rng0 + k) % RngModulus
                /\ Len(seeds[g]) = call[g].seeds0 + k
                /\ runs[g] = call[g].runs0 + k

\* the second generate call of a generateMultiple failed after the first
\* had produced a trajectory
C28_Witness ==
    /\ call[1].op = "generateMultiple"
    /\ call[1].pc = "threw"
    /\ call[1].error = "Ort::Exception"
    /\ call[1].i = 2
    /\ session_[1].conforms
    /\ rng_state_[1] = (call[1].rng0 + 2) % RngModulus

\* C29: a loadNormalization call that returns false leaves the generator's
\* normalization parameters exactly as they were before the call (the
\* identity mean = [0,0,0], std = [1,1,1] if no earlier load succeeded,
\* otherwise the previously loaded values), whether the failure is an
\* unopenable file or a non-numeric array entry.
C29_FailedLoadKeepsParams ==
    [][ \A g \in Gens :
          load_ret'[g] = "false" => norm_params_'[g] = norm_params_[g] ]_vars

\* a load failing on a non-numeric entry after an earlier load had stored
\* parameters, which are still in place
C29_Witness ==
    /\ load_ret[1] = "false"
    /\ norm_doc[1].openable
    /\ stofThrows(norm_doc[1].mean)
    /\ norm_params_[1] # DefaultNormalizationParams

\* ------------------------------------------------------------------------
\* TrajectoryPlotter::plot3D / plot2D (trajectory_plotter.cpp)
\* ------------------------------------------------------------------------

\* most trajectories handed to one plot call, and most plot calls
MaxPlots == 3
MaxPlotCalls == 3

PlotOps == {"plot3D", "plot2D"}

\* the frame of a plotter step
PlotFrame == UNCHANGED <<rankVars, genVars, concVars, appVars, fnVars>>

\* entry of plot3D / plot2D: an empty list or a missing gnuplot returns
\* false at once; otherwise the loop over the trajectories starts with an
\* empty data_files vector
PlotStart ==
    /\ plot_pc \in {"idle", "returned"}
    /\ plot_count < MaxPlotCalls
    /\ \E op \in PlotOps : \E n \in 0..MaxPlots :
       \E isGnuplotAvailable \in BOOLEAN :
          /\ plot_call' = [op |-> op, n |-> n, i |-> 0]
          /\ IF n = 0 \/ ~isGnuplotAvailable
             THEN /\ plot_pc' = "returned"
                  /\ plot_ret' = "false"
             ELSE /\ plot_pc' = "writing"
                  /\ plot_ret' = "none"
    /\ data_files' = <<>>
    /\ plot_count' = plot_count + 1
    /\ UNCHANGED <<tmp_data, tmp_script>>
    /\ PlotFrame

\* one iteration of the loop: writeTrajectoryData(trajectories[i], i)
\* creates /tmp/trajectory_<i>.dat and its name is pushed, or the file
\* cannot be created, "" comes back and the call returns false
PlotWriteData ==
    /\ plot_pc = "writing"
    /\ plot_call.i < plot_call.n
    /\ \E is_open \in BOOLEAN :
          IF is_open
          THEN /\ tmp_data' = tmp_data \cup {plot_call.i}
               /\ data_files' = Append(data_files, plot_call.i)
               /\ plot_call' = [plot_call EXCEPT !.i = @ + 1]
               /\ UNCHANGED <<plot_pc, plot_ret>>
          ELSE /\ plot_pc' = "returned"
               /\ plot_ret' = "false"
               /\ UNCHANGED <<tmp_data, data_files, plot_call>>
    /\ UNCHANGED <<tmp_script, plot_count>>
    /\ PlotFrame

\* generateGnuplotScript: the script file is created unless it cannot be
\* opened; gnuplot then succeeds or fails
PlotGenerateScript ==
    /\ plot_pc = "writing"
    /\ plot_call.i = plot_call.n
    /\ \E is_open \in BOOLEAN : \E gnuplot_ok \in BOOLEAN :
          /\ tmp_script' = (tmp_script \/ is_open)
          /\ plot_ret' = IF is_open /\ gnuplot_ok THEN "true" ELSE "false"
    /\ plot_pc' = "cleanup"
    /\ UNCHANGED <<plot_call, data_files, tmp_data, plot_count>>
    /\ PlotFrame

\* the indices named in a data_files vector
FilesOf(files) == {files[k] : k \in DOMAIN files}

\* "Clean up temporary files": std::remove of every name in data_files and
\* of the script, then return success
PlotCleanUp ==
    /\ plot_pc = "cleanup"
    /\ tmp_data' = tmp_data \ FilesOf(data_files)
    /\ tmp_script' = FALSE
    /\ plot_pc' = "returned"
    /\ UNCHANGED <<plot_call, data_files, plot_ret, plot_count>>
    /\ PlotFrame

InitPlot == RankIdle /\ GenIdle /\ ConcIdle /\ AppIdle /\ FnIdle /\ PlotIdle

NextPlot ==
    \/ PlotStart
    \/ PlotWriteData
    \/ PlotGenerateScript
    \/ PlotCleanUp

SpecPlot == InitPlot /\ [][NextPlot]_vars

\* C30: on every return path of plot3D and plot2D reached after at least
\* one temporary data file was created, all temporary data files created
\* by that call and the gnuplot script file have been removed, also when
\* writing a later data file fails or gnuplot fails.
C30_TempFilesRemoved ==
    (plot_pc = "returned" /\ data_files # <<>>) =>
        /\ FilesOf(data_files) \cap tmp_data = {}
        /\ ~tmp_script

====
